---------------------------- MODULE Spec2Model ----------------------------
(***************************************************************************)
(* Model of the metadata pulldown and failure-classification pipeline of   *)
(* knimin (labadmin): KniminAccess.check_consent and                       *)
(* KniminAccess._explain_pulldown_failures (lib/data_access.py), the       *)
(* pulldown / _batch_grab / _format_* functions                            *)
(* (lib/redcap_interaction.py) and the geocoding operations                *)
(* get_geocode_zipcode / addGeocodingInfo (lib/data_access.py).            *)
(*                                                                         *)
(* The relational store is modelled table by table; a SELECT is the set    *)
(* comprehension it denotes.  The value returned (or the exception raised) *)
(* by the last call is kept in the variable ret.                           *)
(***************************************************************************)
EXTENDS Integers, Sequences, FiniteSets, TLC

VARIABLES
    ag_kit_barcodes,      \* table ag.ag_kit_barcodes: barcode -> row
    ag_handout_barcodes,  \* table ag.ag_handout_barcodes: set of barcodes
    site_sampled,         \* column site_sampled of ag.ag_kit_barcodes
    external_survey_answers, \* table ag.external_survey_answers: the
                          \* (external survey, survey id) pairs that have answers
    redcap,               \* the survey service: record id -> survey type answered
    zipcodes,             \* table ag.zipcodes: the rows inserted, in order
    ag_login,             \* table ag_login: ag_login_id -> row
    geocode_log,          \* the queries sent to the geocode resolver, in order
    project,              \* table barcodes.project: project_id -> project name
    project_barcode,      \* table barcodes.project_barcode: (barcode, project_id)
    kit_barcode_rows,     \* columns (ag_kit_id, barcode) of ag.ag_kit_barcodes
    ret                   \* the last call: its arguments and its result

storeVars == <<ag_kit_barcodes, ag_handout_barcodes, site_sampled,
               external_survey_answers, project, project_barcode,
               kit_barcode_rows>>
geoVars == <<zipcodes, ag_login, geocode_log>>
vars == <<ag_kit_barcodes, ag_handout_barcodes, site_sampled,
          external_survey_answers, project, project_barcode, kit_barcode_rows,
          redcap, zipcodes, ag_login, geocode_log, ret>>

-----------------------------------------------------------------------------
(* Bounds *)

NumBarcodes == 2
NumSurveys == 2
MaxBatch == 2
MaxRecords == 3

(* SQL NULL / Python None / pandas NaN *)
NULL == "NULL"

(* Barcodes are 9-digit strings; the first NumBarcodes of these are used. *)
BarcodeNames ==
    <<"000000001", "000000002", "000000003", "000000004", "000000005">>

Barcodes == {BarcodeNames[i] : i \in 1..NumBarcodes}

(* Survey ids are strings; survey SurveyIdNames[r] has redcap_record_id r. *)
SurveyIdNames == <<"s1", "s2", "s3", "s4", "s5">>

SurveyIds == {SurveyIdNames[i] : i \in 1..NumSurveys}

RecordIds == 1..NumSurveys

(* The empty dict {} *)
EmptyDict == [b \in {} |-> NULL]

-----------------------------------------------------------------------------
(* The store *)

(* A row of ag.ag_kit_barcodes, reduced to the columns the classifier reads. *)
KitBarcodeRows ==
    [survey_id : {NULL, SurveyIdNames[1]},
     withdrawn : {NULL, "Y"},
     sample_date : {NULL, "2015-01-01"},
     environment_sampled : {NULL, "soil"}]

KitBarcodeTables ==
    UNION {[bs -> KitBarcodeRows] : bs \in SUBSET Barcodes}

(* A store in which every sample was taken at a body site md_lookup knows
   and no external survey was stored *)
PlainSamples ==
    /\ site_sampled = [b \in Barcodes |-> "Stool"]
    /\ external_survey_answers = {}

(* A store in which no project and no kit membership is recorded *)
NoProvisioning ==
    /\ project = <<>>
    /\ project_barcode = {}
    /\ kit_barcode_rows = {}

-----------------------------------------------------------------------------
(* KniminAccess._explain_pulldown_failures *)

(* SELECT barcode FROM ag.ag_kit_barcodes WHERE barcode IN %s
   UNION SELECT barcode FROM ag.ag_handout_barcodes WHERE barcode IN %s *)
sql_ag_barcode(remaining) ==
    {b \in remaining : b \in DOMAIN ag_kit_barcodes}
        \cup {b \in remaining : b \in ag_handout_barcodes}

(* SELECT barcode FROM ag.ag_handout_barcodes WHERE barcode IN %s *)
sql_handout(remaining) ==
    {b \in remaining : b \in ag_handout_barcodes}

(* SELECT barcode FROM ag.ag_kit_barcodes WHERE withdrawn = 'Y' AND barcode in %s *)
sql_withdrawn(remaining) ==
    {b \in remaining : b \in DOMAIN ag_kit_barcodes
                       /\ ag_kit_barcodes[b].withdrawn = "Y"}

(* ... WHERE sample_date IS NULL AND barcode in %s *)
sql_not_logged(remaining) ==
    {b \in remaining : b \in DOMAIN ag_kit_barcodes
                       /\ ag_kit_barcodes[b].sample_date = NULL}

(* ... WHERE environment_sampled IS NOT NULL AND barcode in %s *)
sql_environmental(remaining) ==
    {b \in remaining : b \in DOMAIN ag_kit_barcodes
                       /\ ag_kit_barcodes[b].environment_sampled # NULL}

(* ... WHERE survey_id IS NULL AND barcode in %s *)
sql_no_consent(remaining) ==
    {b \in remaining : b \in DOMAIN ag_kit_barcodes
                       /\ ag_kit_barcodes[b].survey_id = NULL}

(* A plausible slip: the dict is rebuilt, every key taking the new reason. *)
dict_update_all(failures, rows, reason) ==
    [b \in DOMAIN failures \cup rows |-> reason]

(* dict.update: the keys of `rows` are (over)written with `reason`. *)
dict_update(failures, rows, reason) ==
    [b \in DOMAIN failures \cup rows |->
        IF b \in rows THEN reason ELSE failures[b]]

(* A plausible slip: the reasons are recorded but the explained barcodes stay
   in the remaining set, so a later query reports (and overwrites) them. *)
update_reason_and_remaining_keep(rows, reason, failures, remaining) ==
    [failures |-> dict_update(failures, rows, reason),
     remaining |-> remaining]

(* The nested helper: rows is the result of the query run on `remaining`. *)
update_reason_and_remaining(rows, reason, failures, remaining) ==
    [failures |-> dict_update(failures, rows, reason),
     remaining |-> remaining \ DOMAIN dict_update(failures, rows, reason)]

(* A plausible slip: no short cut for an empty input, so the first query is
   sent before the empty remaining set ends the call. *)
_explain_pulldown_failures_query(barcodes) ==
    [fail_reason |-> dict_update(EmptyDict, barcodes \ sql_ag_barcode(barcodes),
                                 "Not an AG barcode"),
     queries |-> 1]

(* The result: the reason dict and the number of queries sent to the store. *)
_explain_pulldown_failures(barcodes) ==
    IF Cardinality(barcodes) = 0
    THEN [fail_reason |-> EmptyDict, queries |-> 0]
    ELSE
    LET hold == sql_ag_barcode(barcodes)
        f0 == dict_update(EmptyDict, barcodes \ hold, "Not an AG barcode")
        s1 == update_reason_and_remaining(
                  sql_handout(hold), "Unassigned handout kit barcode", f0, hold)
        s2 == update_reason_and_remaining(
                  sql_withdrawn(s1.remaining), "Withdrawn sample",
                  s1.failures, s1.remaining)
        s3 == update_reason_and_remaining(
                  sql_not_logged(s2.remaining), "Sample not logged",
                  s2.failures, s2.remaining)
        s4 == update_reason_and_remaining(
                  sql_environmental(s3.remaining), "Environmental sample",
                  s3.failures, s3.remaining)
        s5 == update_reason_and_remaining(
                  sql_no_consent(s4.remaining), "Sample logged without consent",
                  s4.failures, s4.remaining)
    IN  IF Cardinality(hold) = 0
        THEN [fail_reason |-> f0, queries |-> 1]
        ELSE IF Cardinality(s1.remaining) = 0
        THEN [fail_reason |-> s1.failures, queries |-> 2]
        ELSE IF Cardinality(s2.remaining) = 0
        THEN [fail_reason |-> s2.failures, queries |-> 3]
        ELSE IF Cardinality(s3.remaining) = 0
        THEN [fail_reason |-> s3.failures, queries |-> 4]
        ELSE IF Cardinality(s4.remaining) = 0
        THEN [fail_reason |-> s4.failures, queries |-> 5]
        ELSE IF Cardinality(s5.remaining) = 0
        THEN [fail_reason |-> s5.failures, queries |-> 6]
        ELSE [fail_reason |->
                 dict_update(s5.failures, s5.remaining, "Unknown reason"),
              queries |-> 6]

-----------------------------------------------------------------------------
(* KniminAccess.check_consent *)

(* SELECT barcode FROM ag.ag_kit_barcodes
   WHERE barcode in %s AND survey_id IS NOT NULL *)
sql_consented(barcodes) ==
    {b \in barcodes : b \in DOMAIN ag_kit_barcodes
                      /\ ag_kit_barcodes[b].survey_id # NULL}

(* A plausible slip: every requested barcode is handed to the classifier. *)
check_consent_all(barcodes) ==
    [consented |-> sql_consented(barcodes),
     failures |-> _explain_pulldown_failures(barcodes).fail_reason]

check_consent(barcodes) ==
    [consented |-> sql_consented(barcodes),
     failures |-> _explain_pulldown_failures(
                      barcodes \ sql_consented(barcodes)).fail_reason]

-----------------------------------------------------------------------------
(* The caller takes the result of the last call. *)
Return ==
    /\ ret.op # "none"
    /\ ret' = [op |-> "none"]
    /\ UNCHANGED <<storeVars, redcap, geoVars>>

(* Calls of the classifier *)

ExplainPulldownFailures ==
    \E bs \in SUBSET Barcodes :
        /\ ret.op = "none"
        /\ ret' = [op |-> "_explain_pulldown_failures", barcodes |-> bs,
                   result |-> _explain_pulldown_failures(bs)]
        /\ UNCHANGED <<storeVars, redcap, geoVars>>

CheckConsent ==
    \E bs \in SUBSET Barcodes :
        /\ ret.op = "none"
        /\ ret' = [op |-> "check_consent", barcodes |-> bs,
                   result |-> check_consent(bs)]
        /\ UNCHANGED <<storeVars, redcap, geoVars>>

InitConsent ==
    /\ ag_kit_barcodes \in KitBarcodeTables
    /\ ag_handout_barcodes \in SUBSET Barcodes
    /\ PlainSamples
    /\ NoProvisioning
    /\ redcap = [r \in RecordIds |-> NULL]
    /\ zipcodes = <<>>
    /\ ag_login = <<>>
    /\ geocode_log = <<>>
    /\ ret = [op |-> "none"]

NextConsent ==
    \/ ExplainPulldownFailures
    \/ CheckConsent
    \/ Return

SpecConsent == InitConsent /\ [][NextConsent]_vars

-----------------------------------------------------------------------------
(* Tables (pandas DataFrames) are sequences of rows; the field `index` of a
   row is its row key. *)

Min(S) == CHOOSE x \in S : \A y \in S : x <= y

RECURSIVE Flatten(_)
Flatten(ss) == IF Len(ss) = 0 THEN <<>> ELSE Head(ss) \o Flatten(Tail(ss))

IndexOf(table) == {table[i].index : i \in 1..Len(table)}

(* db.get_survey_types(): the survey types of ag.redcap_instruments *)
SurveyTypes == {"Human", "Animal", "Other"}

(* The orders in which `for survey in surveys` can visit the dict's keys. *)
SurveyOrders ==
    {o \in [1..Cardinality(SurveyTypes) -> SurveyTypes] :
        \A i, j \in DOMAIN o : i # j => o[i] # o[j]}

(* ag.ag_login_surveys: survey_id -> redcap_record_id *)
redcap_record_id(s) == CHOOSE r \in 1..Len(SurveyIdNames) : SurveyIdNames[r] = s

(* db.get_records_for_barcodes: SELECT DISTINCT redcap_record_id ...
   WHERE barcode in %s ORDER BY redcap_record_id *)
get_records_for_barcodes(barcodes) ==
    LET rs == {redcap_record_id(ag_kit_barcodes[b].survey_id) :
                  b \in {c \in barcodes \cap DOMAIN ag_kit_barcodes :
                            ag_kit_barcodes[c].survey_id # NULL}}
    IN  SelectSeq([r \in 1..Len(SurveyIdNames) |-> r], LAMBDA r : r \in rs)

(* db.get_barcode_surveys, as the backbone frame indexed on SURVEY_ID *)
get_barcode_surveys(barcodes) ==
    LET bs == SelectSeq(BarcodeNames,
                        LAMBDA b : b \in barcodes \cap DOMAIN ag_kit_barcodes)
    IN  [i \in 1..Len(bs) |->
            [index |-> ag_kit_barcodes[bs[i]].survey_id,
             SURVEY_ID |-> ag_kit_barcodes[bs[i]].survey_id,
             BARCODE |-> bs[i]]]

-----------------------------------------------------------------------------
(* _batch_grab *)

DefaultBatchSize == 100

(* A plausible slip: the slice l[i:i+n+1], one element too long. *)
chunks_overlap(l, n) ==
    [k \in 1..((Len(l) + n - 1) \div n) |->
        SubSeq(l, (k - 1) * n + 1,
               IF k * n + 1 < Len(l) THEN k * n + 1 ELSE Len(l))]

(* chunks(l, n): successive n-sized chunks of l *)
chunks(l, n) ==
    [k \in 1..((Len(l) + n - 1) \div n) |->
        SubSeq(l, (k - 1) * n + 1, IF k * n < Len(l) THEN k * n ELSE Len(l))]

(* ag_redcap.export_records(records=record_chunk, forms=instruments, ...):
   one raw row per record of the chunk that answered this survey type. *)
export_records(record_chunk, survey) ==
    LET keep == SelectSeq(record_chunk, LAMBDA r : redcap[r] = survey)
    IN  [i \in 1..Len(keep) |->
            [index |-> SurveyIdNames[keep[i]], RECORD_ID |-> keep[i]]]

(* full_df = response[0]; for chunk in response[1:]: full_df.append(chunk)
   DataFrame.append returns a new frame, which is dropped. *)
combine_chunks(response) == response[1]

(* A plausible slip: a failed chunk is skipped and the rest is returned. *)
_batch_grab_skip(survey, records, batch_size, failing) ==
    LET cs == chunks(records, batch_size)
        good == SelectSeq([k \in 1..Len(cs) |-> k], LAMBDA k : k \notin failing)
        response == [i \in 1..Len(good) |-> export_records(cs[good[i]], survey)]
    IN  IF Len(response) = 0
        THEN [exc |-> "IndexError", exports |-> cs]
        ELSE [exc |-> NULL, exports |-> cs,
              table |-> combine_chunks(response)]

(* failing: the chunk positions whose export call raises RedcapError.
   exports: the chunks sent, in order. *)
_batch_grab(survey, records, batch_size, failing) ==
    LET cs == chunks(records, batch_size)
        bad == {k \in 1..Len(cs) : k \in failing}
        response == [k \in 1..Len(cs) |-> export_records(cs[k], survey)]
    IN  IF bad # {}
        THEN [exc |-> "RuntimeError",
              msg |-> <<"Batched export failed for batch_size=", batch_size>>,
              exports |-> SubSeq(cs, 1, Min(bad))]
        ELSE IF Len(response) = 0
        THEN [exc |-> "IndexError", exports |-> cs]
        ELSE [exc |-> NULL, exports |-> cs,
              table |-> combine_chunks(response)]

(* redcap.py _batch_grab: the records requested are all the records the
   survey service lists; a failed chunk raises ValueError. *)
redcap_record_list ==
    SelectSeq([r \in 1..Len(redcap) |-> r], LAMBDA r : redcap[r] # NULL)

redcap_batch_grab(instruments, batch_size, failing) ==
    LET cs == chunks(redcap_record_list, batch_size)
        bad == {k \in 1..Len(cs) : k \in failing}
        response == [k \in 1..Len(cs) |-> export_records(cs[k], instruments)]
    IN  IF bad # {}
        THEN [exc |-> "ValueError",
              msg |-> <<"Chunked export failed for batch_size=", batch_size>>,
              exports |-> SubSeq(cs, 1, Min(bad))]
        ELSE IF Len(response) = 0
        THEN [exc |-> "IndexError", exports |-> cs]
        ELSE [exc |-> NULL, exports |-> cs,
              table |-> combine_chunks(response)]

-----------------------------------------------------------------------------
(* The formatters *)

MatchingRows(brow, data) == SelectSeq(data, LAMBDA d : d.index = brow.index)

JoinedRow(brow, record_id) ==
    [index |-> brow.index, SURVEY_ID |-> brow.SURVEY_ID,
     BARCODE |-> brow.BARCODE, RECORD_ID |-> record_id]

(* backbone.join(data): left join on the index; a backbone row without a
   match keeps NaN in the columns of data. *)
join_left(backbone, data) ==
    Flatten([i \in 1..Len(backbone) |->
        LET m == MatchingRows(backbone[i], data)
        IN  IF Len(m) = 0
            THEN <<JoinedRow(backbone[i], NULL)>>
            ELSE [j \in 1..Len(m) |-> JoinedRow(backbone[i], m[j].RECORD_ID)]])

(* backbone.join(data, how='inner') *)
join_inner(backbone, data) ==
    Flatten([i \in 1..Len(backbone) |->
        LET m == MatchingRows(backbone[i], data)
        IN  [j \in 1..Len(m) |-> JoinedRow(backbone[i], m[j].RECORD_ID)]])

(* combined.set_index('BARCODE', inplace=True) *)
set_index_BARCODE(table) ==
    [i \in 1..Len(table) |-> [table[i] EXCEPT !.index = table[i].BARCODE]]

(* combined.loc[labels]: the rows of each label, in the order of the labels;
   a label the frame lacks gives a row of NaN, and KeyError if none is found. *)
loc(table, labels) ==
    Flatten([i \in 1..Len(labels) |->
        LET m == SelectSeq(table, LAMBDA t : t.index = labels[i])
        IN  IF Len(m) = 0
            THEN <<[index |-> labels[i], SURVEY_ID |-> NULL,
                    BARCODE |-> NULL, RECORD_ID |-> NULL]>>
            ELSE m])

(* db.get_countries() builds country_lookup and returns nothing (None). *)
get_countries == NULL

(* _geolocate: the first row evaluates country_lookup[country], and None is
   not subscriptable; only `except KeyError` guards it. *)
_geolocate(data) ==
    IF Len(data) > 0 /\ get_countries = NULL
    THEN [exc |-> "TypeError"]
    ELSE [exc |-> NULL, table |-> data]

(* combined = backbone.join(data); combined = combined.loc[data.index];
   combined.set_index('BARCODE', inplace=True) *)
human_combine(data, backbone) ==
    set_index_BARCODE(
        loc(join_left(backbone, data), [i \in 1..Len(data) |-> data[i].index]))

(* The column lists and lookups of constants.py, which is not among the
   sources: each stands for the list of that name. *)
redcap_remove == {"REDCAP_SURVEY_IDENTIFIER"}

ebi_remove == {"ZIP_CODE"}

(* The body sites md_lookup has an entry for *)
md_lookup == {"Stool"}

Sites == {"Stool", "Moon"}

(* The columns of the raw export of the Human instruments *)
RawHumanColumns ==
    {"RECORD_ID", "COUNTRY", "ZIP_CODE", "BIRTH_DATE", "AGE_YEARS",
     "REDCAP_SURVEY_IDENTIFIER"}

(* The columns _geolocate and _format_human add to data (lines 179-188 and
   216-262); COUNTRY is deleted and added again, BIRTH_DATE is deleted. *)
HumanDataColumns ==
    (RawHumanColumns \ {"BIRTH_DATE"})
    \cup {"LATITUDE", "LONGITUDE", "ELEVATION", "STATE", "CENSUS_REGION",
          "HOST_TAXID", "AGE_CAT", "SUBSET_HEALTHY", "BIRTH_MONTH",
          "BIRTH_YEAR"}

(* The columns of combined after the loop over its rows (lines 272-317) *)
HumanCombinedColumns ==
    HumanDataColumns
    \cup {"SURVEY_ID", "ANONYMIZED_NAME", "COLLECTION_SEASON", "TAXON_ID",
          "BODY_SITE", "DESCRIPTION"}

(* external=None *)
NoExternal == <<>>

ExternalSurveys == {"Vioscreen"}

(* The answer columns of an external survey *)
ExternalColumns(survey) == {"VIOSCREEN_SCORE"}

(* db.get_external_survey(survey, survey_ids): the frame of the answers, or
   None when no survey id has answers *)
get_external_survey(survey, survey_ids) ==
    LET info == {a \in external_survey_answers :
                    a[1] = survey /\ a[2] \in survey_ids}
    IN  IF info = {} THEN NULL
        ELSE [index |-> {a[2] : a \in info}, columns |-> ExternalColumns(survey)]

(* for survey in external: ext = db.get_external_survey(survey, data.index);
   data.join(ext, how='left').  The frame join returns is dropped, so data
   keeps its columns; join(None) raises TypeError. *)
add_external_surveys(data, external) ==
    IF \E i \in DOMAIN external :
           get_external_survey(external[i], IndexOf(data)) = NULL
    THEN [exc |-> "TypeError"]
    ELSE [exc |-> NULL, columns |-> HumanDataColumns]

(* The loop over the rows of combined: the first row whose barcode has no
   details, no sample date or a site md_lookup lacks ends it. *)
BadSiteRows(combined) ==
    {i \in 1..Len(combined) :
        \/ combined[i].BARCODE \notin DOMAIN ag_kit_barcodes
        \/ ag_kit_barcodes[combined[i].BARCODE].sample_date = NULL
        \/ site_sampled[combined[i].BARCODE] \notin md_lookup}

body_site_lookup(combined) ==
    IF BadSiteRows(combined) = {}
    THEN [exc |-> NULL]
    ELSE LET barcode == combined[Min(BadSiteRows(combined))].BARCODE
         IN  IF barcode \notin DOMAIN ag_kit_barcodes
             THEN [exc |-> "KeyError", msg |-> <<barcode>>]
             ELSE IF ag_kit_barcodes[barcode].sample_date = NULL
             THEN [exc |-> "AttributeError"]
             ELSE [exc |-> "KeyError",
                   msg |-> <<"Unknown body site for barcode %s: %s",
                             barcode, site_sampled[barcode]>>]

(* combined.drop(redcap_remove, ...); if not full: combined.drop(ebi_remove, ...) *)
drop_columns(columns, full) ==
    IF full
    THEN columns \ redcap_remove
    ELSE (columns \ redcap_remove) \ ebi_remove

_format_human(data, backbone, external, full) ==
    IF _geolocate(data).exc # NULL
    THEN [exc |-> _geolocate(data).exc]
    ELSE IF add_external_surveys(data, external).exc # NULL
    THEN [exc |-> add_external_surveys(data, external).exc]
    ELSE IF Len(data) > 0
            /\ IndexOf(data) \cap IndexOf(backbone) = {}
    THEN [exc |-> "KeyError"]
    ELSE
    LET combined == human_combine(_geolocate(data).table, backbone)
        sites == body_site_lookup(combined)
    IN  IF sites.exc # NULL
        THEN sites
        ELSE [exc |-> NULL, table |-> combined,
              columns |-> drop_columns(
                  (add_external_surveys(data, external).columns
                   \cup HumanCombinedColumns), full)]

(* A plausible slip: an inner join where the left join is meant. *)
_format_animal_inner(data, backbone) ==
    [exc |-> NULL, table |-> set_index_BARCODE(join_inner(backbone, data))]

_format_animal(data, backbone) ==
    [exc |-> NULL, table |-> set_index_BARCODE(join_left(backbone, data))]

(* combined.set_index('BARCODE') returns a new frame, which is dropped: the
   frame returned is still indexed on SURVEY_ID.
   data['ANONYMIZED_NAME'] = list(combined.index) raises ValueError when the
   two frames differ in length. *)
_format_basic(data, backbone) ==
    IF Len(join_inner(backbone, data)) # Len(data)
    THEN [exc |-> "ValueError"]
    ELSE [exc |-> NULL, table |-> join_inner(backbone, data)]

format(survey, data, backbone, external, full) ==
    IF survey = "Human" THEN _format_human(data, backbone, external, full)
    ELSE IF survey = "Animal" THEN _format_animal(data, backbone)
    ELSE _format_basic(data, backbone)

-----------------------------------------------------------------------------
(* pulldown *)

(* blanks=None *)
NoBlanks == <<>>

BlankNames == <<"BLANK.01">>

(* blanks_values[col], of constants.py: one placeholder for each column *)
blanks_values == "blank"

(* blanks_df: one row for each blank, every column holding blanks_values[col] *)
blanks_df(blanks) ==
    [i \in 1..Len(blanks) |->
        [index |-> blanks[i], SURVEY_ID |-> blanks_values,
         BARCODE |-> blanks[i], RECORD_ID |-> blanks_values]]

(* A plausible slip: a survey type without raw rows is given an empty
   table instead of being skipped. *)
RECURSIVE pulldown_loop_keep(_, _, _, _, _, _, _)
pulldown_loop_keep(order, records, backbone, failing, opts, formatted, df) ==
    IF Len(order) = 0
    THEN [exc |-> NULL, formatted |-> formatted, df |-> df]
    ELSE
    LET survey == Head(order)
        raw_data == _batch_grab(survey, records, DefaultBatchSize,
                        IF survey \in failing THEN 1..Len(records) ELSE {})
    IN  IF raw_data.exc # NULL
        THEN [exc |-> raw_data.exc]
        ELSE
        LET f == IF Len(raw_data.table) = 0
                 THEN [exc |-> NULL, table |-> <<>>, columns |-> {}]
                 ELSE format(survey, raw_data.table, backbone, opts.external,
                             opts.full)
        IN  IF f.exc # NULL
            THEN f
            ELSE pulldown_loop_keep(Tail(order), records, backbone, failing,
                     opts, (survey :> f.table) @@ formatted,
                     [bound |-> TRUE, table |-> f.table,
                      human_columns |-> {}])

(* The loop over the survey types; df is the frame of the last survey type
   formatted, unbound until then.  failing: the survey types whose export
   call raises RedcapError.  opts: the arguments blanks, external and full.
   human_columns: the header of the Human table, if one was formatted. *)
RECURSIVE pulldown_loop(_, _, _, _, _, _, _)
pulldown_loop(order, records, backbone, failing, opts, formatted, df) ==
    IF Len(order) = 0
    THEN [exc |-> NULL, formatted |-> formatted, df |-> df]
    ELSE
    LET survey == Head(order)
        raw_data == _batch_grab(survey, records, DefaultBatchSize,
                        IF survey \in failing THEN 1..Len(records) ELSE {})
    IN  IF raw_data.exc # NULL
        THEN [exc |-> raw_data.exc]
        ELSE IF Len(raw_data.table) = 0
        THEN pulldown_loop(Tail(order), records, backbone, failing, opts,
                           formatted, df)
        ELSE
        LET f == format(survey, raw_data.table, backbone, opts.external,
                        opts.full)
        IN  IF f.exc # NULL
            THEN f
            ELSE
            LET table == IF survey = "Human"
                         THEN f.table \o blanks_df(opts.blanks)
                         ELSE f.table
            IN  pulldown_loop(Tail(order), records, backbone, failing, opts,
                    (survey :> table) @@ formatted,
                    [bound |-> TRUE, table |-> table,
                     human_columns |->
                         IF survey = "Human" THEN f.columns
                         ELSE IF df.bound THEN df.human_columns ELSE {}])

(* failures = set(barcodes) - set(df.index) *)
pulldown_failures(barcodes, loop) ==
    barcodes \ IndexOf(loop.df.table)

pulldown(barcodes, blanks, external, full, order, failing) ==
    LET loop == pulldown_loop(order, get_records_for_barcodes(barcodes),
                    get_barcode_surveys(barcodes), failing,
                    [blanks |-> blanks, external |-> external, full |-> full],
                    [t \in {} |-> <<>>], [bound |-> FALSE])
    IN  IF loop.exc # NULL
        THEN loop
        ELSE IF ~loop.df.bound
        THEN [exc |-> "UnboundLocalError"]
        ELSE [exc |-> NULL, formatted |-> loop.formatted,
              human_columns |-> loop.df.human_columns,
              failures |-> _explain_pulldown_failures(
                               pulldown_failures(barcodes, loop)).fail_reason]

-----------------------------------------------------------------------------
(* Calls of the pulldown functions *)

Pulldown ==
    \E bs \in SUBSET Barcodes, order \in SurveyOrders,
       failing \in {{}} \cup {{t} : t \in SurveyTypes} :
        /\ ret.op = "none"
        /\ ret' = [op |-> "pulldown", barcodes |-> bs, order |-> order,
                   failing |-> failing, blanks |-> NoBlanks,
                   external |-> NoExternal, full |-> FALSE,
                   result |-> pulldown(bs, NoBlanks, NoExternal, FALSE,
                                       order, failing)]
        /\ UNCHANGED <<storeVars, redcap, geoVars>>

(* records: any list of distinct record ids, in ascending order *)
BatchGrab ==
    \E survey \in SurveyTypes, rs \in SUBSET (1..MaxRecords),
       batch_size \in 1..MaxBatch, failing \in SUBSET (1..MaxRecords) :
        LET records == SelectSeq([r \in 1..Len(SurveyIdNames) |-> r],
                                 LAMBDA r : r \in rs)
        IN  /\ ret.op = "none"
            /\ ret' = [op |-> "_batch_grab", survey |-> survey,
                       records |-> records, batch_size |-> batch_size,
                       failing |-> failing,
                       result |-> _batch_grab(survey, records, batch_size,
                                              failing)]
            /\ UNCHANGED <<storeVars, redcap, geoVars>>

RedcapBatchGrab ==
    \E survey \in SurveyTypes, batch_size \in 1..MaxBatch,
       failing \in SUBSET (1..MaxRecords) :
        /\ ret.op = "none"
        /\ ret' = [op |-> "redcap._batch_grab", survey |-> survey,
                   records |-> redcap_record_list,
                   batch_size |-> batch_size, failing |-> failing,
                   result |-> redcap_batch_grab(survey, batch_size, failing)]
        /\ UNCHANGED <<storeVars, redcap, geoVars>>

(* data: the raw rows the survey service holds for the survey type;
   backbone: the backbone of any set of barcodes *)
Format ==
    \E survey \in SurveyTypes, rs \in SUBSET RecordIds, bs \in SUBSET Barcodes :
        LET data == export_records(
                        SelectSeq([r \in 1..Len(SurveyIdNames) |-> r],
                                  LAMBDA r : r \in rs), survey)
            backbone == get_barcode_surveys(bs)
        IN  /\ ret.op = "none"
            /\ ret' = [op |-> "format", survey |-> survey, data |-> data,
                       backbone |-> backbone,
                       result |-> format(survey, data, backbone, NoExternal,
                                         FALSE)]
            /\ UNCHANGED <<storeVars, redcap, geoVars>>

(* Every registered barcode has a logged, not withdrawn, human or animal
   sample; the survey link and the answers held by the service vary. *)
PulldownKitRows ==
    [survey_id : {NULL} \cup SurveyIds,
     withdrawn : {NULL},
     sample_date : {"2015-01-01"},
     environment_sampled : {NULL}]

InitPulldown ==
    /\ ag_kit_barcodes \in UNION {[bs -> PulldownKitRows] : bs \in SUBSET Barcodes}
    /\ ag_handout_barcodes = {}
    /\ PlainSamples
    /\ NoProvisioning
    /\ redcap \in [RecordIds -> SurveyTypes \cup {NULL}]
    /\ zipcodes = <<>>
    /\ ag_login = <<>>
    /\ geocode_log = <<>>
    /\ ret = [op |-> "none"]

NextPulldown ==
    \/ Pulldown
    \/ Return

SpecPulldown == InitPulldown /\ [][NextPulldown]_vars

(* _batch_grab reads the survey service only. *)
InitBatch ==
    /\ ag_kit_barcodes = [b \in {} |-> NULL]
    /\ ag_handout_barcodes = {}
    /\ PlainSamples
    /\ NoProvisioning
    /\ redcap \in [1..MaxRecords -> SurveyTypes \cup {NULL}]
    /\ zipcodes = <<>>
    /\ ag_login = <<>>
    /\ geocode_log = <<>>
    /\ ret = [op |-> "none"]

NextBatch ==
    \/ BatchGrab
    \/ RedcapBatchGrab
    \/ Return

SpecBatch == InitBatch /\ [][NextBatch]_vars

NextFormat ==
    \/ Format
    \/ Return

SpecFormat == InitPulldown /\ [][NextFormat]_vars

(* pulldown called with its optional arguments *)
PulldownOptions ==
    \E bs \in SUBSET Barcodes, order \in SurveyOrders,
       blanks \in {NoBlanks, BlankNames},
       external \in {NoExternal} \cup {<<e>> : e \in ExternalSurveys},
       full \in BOOLEAN :
        /\ ret.op = "none"
        /\ ret' = [op |-> "pulldown", barcodes |-> bs, order |-> order,
                   failing |-> {}, blanks |-> blanks,
                   external |-> external, full |-> full,
                   result |-> pulldown(bs, blanks, external, full, order, {})]
        /\ UNCHANGED <<storeVars, redcap, geoVars>>

(* _format_human called on the raw rows the survey service holds for the
   Human survey type *)
FormatHuman ==
    \E rs \in SUBSET RecordIds, bs \in SUBSET Barcodes,
       external \in {NoExternal} \cup {<<e>> : e \in ExternalSurveys},
       full \in BOOLEAN :
        LET data == export_records(
                        SelectSeq([r \in 1..Len(SurveyIdNames) |-> r],
                                  LAMBDA r : r \in rs), "Human")
            backbone == get_barcode_surveys(bs)
        IN  /\ ret.op = "none"
            /\ ret' = [op |-> "_format_human", data |-> data,
                       backbone |-> backbone, external |-> external,
                       full |-> full,
                       result |-> _format_human(data, backbone, external,
                                                full)]
            /\ UNCHANGED <<storeVars, redcap, geoVars>>

(* Every barcode is registered with a logged sample and linked to a survey
   of its own; the sample sites, the stored external answers and the
   answers held by the survey service vary. *)
HumanKitTable ==
    [b \in Barcodes |->
        [survey_id |-> SurveyIdNames[
             (((CHOOSE i \in 1..NumBarcodes : BarcodeNames[i] = b) - 1)
                 % NumSurveys) + 1],
         withdrawn |-> NULL,
         sample_date |-> "2015-01-01",
         environment_sampled |-> NULL]]

InitHuman ==
    /\ ag_kit_barcodes = HumanKitTable
    /\ ag_handout_barcodes = {}
    /\ site_sampled \in [Barcodes -> Sites]
    /\ external_survey_answers
           \in SUBSET (ExternalSurveys \X {SurveyIdNames[1]})
    /\ NoProvisioning
    /\ redcap \in [RecordIds -> SurveyTypes \cup {NULL}]
    /\ zipcodes = <<>>
    /\ ag_login = <<>>
    /\ geocode_log = <<>>
    /\ ret = [op |-> "none"]

(* The stages of the Human formatter that work on one column, applied to
   the values the column can hold *)

(* An AGE_YEARS answer: 'Unspecified', or a number of years *)
AgeYears == {18, 19, 20, 69, 70, 71}

AgeAnswers ==
    {[unspecified |-> TRUE, years |-> 0]}
        \cup {[unspecified |-> FALSE, years |-> y] : y \in AgeYears}

(* lambda x: x != 'Unspecified' and 19 < x < 70 *)
subset_age(x) == ~x.unspecified /\ 19 < x.years /\ x.years < 70

SubsetAge ==
    \E x \in AgeAnswers :
        /\ ret.op = "none"
        /\ ret' = [op |-> "SUBSET_AGE", age |-> x, result |-> subset_age(x)]
        /\ UNCHANGED <<storeVars, redcap, geoVars>>

(* The states a row can resolve to: a state regions_by_state knows, one it
   does not know, or none *)
ResolvedStates == {"CA", "NY", "ZZ", "Unspecified"}

(* regions_by_state, of constants.py: the regions of each US state *)
regions_by_state ==
    [st \in {"CA", "NY"} |->
        IF st = "CA"
        THEN [Census_1 |-> "West", Economic |-> "Far West"]
        ELSE [Census_1 |-> "Northeast", Economic |-> "Mideast"]]

(* try: regions_by_state[state] ... except KeyError: 'Unspecified' *)
regions_of(state) ==
    IF state \in DOMAIN regions_by_state
    THEN [CENSUS_REGION |-> regions_by_state[state].Census_1,
          ECONOMIC_REGION |-> regions_by_state[state].Economic]
    ELSE [CENSUS_REGION |-> "Unspecified", ECONOMIC_REGION |-> "Unspecified"]

(* The loop of _geolocate over the rows, reduced to the two region columns:
   data['CENSUS_REGION'] = <scalar> sets the column in every row of data.
   states: the resolved state of each row, in row order; n: len(data);
   columns: the two columns so far (no row holds them before the loop). *)
RECURSIVE region_columns(_, _, _)
region_columns(states, n, columns) ==
    IF Len(states) = 0
    THEN columns
    ELSE region_columns(Tail(states), n,
                        [i \in 1..n |-> regions_of(Head(states))])

GeolocateRegions ==
    \E n \in 1..NumSurveys :
        \E states \in [1..n -> ResolvedStates] :
            /\ ret.op = "none"
            /\ ret' = [op |-> "_geolocate regions", states |-> states,
                       result |-> region_columns(states, n, <<>>)]
            /\ UNCHANGED <<storeVars, redcap, geoVars>>

NextHuman ==
    \/ PulldownOptions
    \/ FormatHuman
    \/ SubsetAge
    \/ GeolocateRegions
    \/ Return

SpecHuman == InitHuman /\ [][NextHuman]_vars

-----------------------------------------------------------------------------
(* Geocoding.  Zipcodes and postcodes are sequences of characters, so that the
   normalisation before the comparison is computed. *)

NumLogins == 3
MaxGeocodeCalls == 3

Zipcodes == {<<>>, <<"9", "2">>, <<"S", "W", " ", "1">>}
Countries == {"", "US"}

(* str.lower() on the characters that occur *)
lower(str) ==
    [i \in DOMAIN str |->
        CASE str[i] = "S" -> "s" [] str[i] = "W" -> "w" [] str[i] = "E" -> "e"
          [] str[i] = "N" -> "n" [] OTHER -> str[i]]

(* str.replace(' ', '') *)
remove_spaces(str) == SelectSeq(str, LAMBDA c : c # " ")

(* str.split('-')[0] *)
before_dash(str) ==
    IF \E i \in DOMAIN str : str[i] = "-"
    THEN SubSeq(str, 1, Min({i \in DOMAIN str : str[i] = "-"}) - 1)
    ELSE str

startswith(str, prefix) ==
    Len(prefix) <= Len(str) /\ SubSeq(str, 1, Len(prefix)) = prefix

(* A postcode of None, as the characters str() prints for it *)
NonePostcode == <<"N", "o", "n", "e">>

(* Location(input, lat, long, elev, city, state, postcode, country) *)
Location(input, lat, long, elev, city, state, postcode, country) ==
    [input |-> input, lat |-> lat, long |-> long, elev |-> elev,
     city |-> city, state |-> state, postcode |-> postcode,
     country |-> country]

(* What a call of geocode(address) can do: return a Location (with no
   coordinates when nothing was found), raise GoogleAPILimitExceeded, or
   raise another error. *)
ResolverPostcodes == {<<"9", "2">>, <<"9", "2", "0">>, <<"s", "w", "1">>,
                      <<"E", "1">>}

GeocodeReplies(address) ==
    {[exc |-> "GoogleAPILimitExceeded"], [exc |-> "Exception"],
     [exc |-> NULL,
      info |-> Location(address, NULL, NULL, NULL, NULL, NULL, NonePostcode,
                        NULL)]}
    \cup {[exc |-> NULL,
           info |-> Location(address, "32.9", "-117.2", "100.0", "city",
                             "CA", pc, c)] :
             pc \in ResolverPostcodes, c \in {"US", "GB"}}

(* The rows of ag.zipcodes stored for a (zipcode, country) pair *)
ZipcodeRows(table, zipcode, country) ==
    {i \in 1..Len(table) :
        table[i].zipcode = zipcode /\ table[i].country = country}

(* A plausible slip: only the countries are compared, not the postcodes. *)
get_geocode_zipcode_country(zipcode, country, reply, unique_key) ==
    IF zipcode = <<>> \/ country = ""
    THEN [exc |-> NULL, called |-> FALSE, inserted |-> FALSE,
          info |-> Location(zipcode, NULL, NULL, NULL, NULL, NULL,
                            NonePostcode, country)]
    ELSE IF reply.exc # NULL
    THEN [exc |-> reply.exc, called |-> TRUE, inserted |-> FALSE]
    ELSE
    LET mismatch == reply.info.lat # NULL /\ reply.info.country # country
        info == IF mismatch
                THEN Location(zipcode, NULL, NULL, NULL, NULL, NULL,
                              NonePostcode, country)
                ELSE reply.info
        cannot_geocode == reply.info.lat = NULL \/ mismatch
    IN  IF unique_key /\ ZipcodeRows(zipcodes, zipcode, country) # {}
        THEN [exc |-> "ValueError", called |-> TRUE, inserted |-> FALSE]
        ELSE
        [exc |-> NULL, called |-> TRUE, info |-> info, inserted |-> TRUE,
         row |-> [zipcode |-> zipcode, latitude |-> info.lat,
                     longitude |-> info.long, elevation |-> info.elev,
                     city |-> info.city, state |-> info.state,
                     country |-> country, cannot_geocode |-> cannot_geocode]]

(* KniminAccess.get_geocode_zipcode, given the reply of the resolver.
   called: whether geocode() was called; inserted: whether a row was
   inserted into ag.zipcodes, and row: that row.
   unique_key: whether ag.zipcodes has a unique key on (zipcode, country),
   which its schema (not among the sources) decides; if it has, the INSERT
   of a pair already stored is rejected and _sql_executor raises
   ValueError. *)
get_geocode_zipcode(zipcode, country, reply, unique_key) ==
    IF zipcode = <<>> \/ country = ""
    THEN [exc |-> NULL, called |-> FALSE, inserted |-> FALSE,
          info |-> Location(zipcode, NULL, NULL, NULL, NULL, NULL,
                            NonePostcode, country)]
    ELSE IF reply.exc # NULL
    THEN [exc |-> reply.exc, called |-> TRUE, inserted |-> FALSE]
    ELSE
    LET clean_postcode == remove_spaces(lower(reply.info.postcode))
        clean_zipcode == before_dash(remove_spaces(lower(zipcode)))
        mismatch == reply.info.lat # NULL
                    /\ (reply.info.country # country
                        \/ ~startswith(clean_postcode, clean_zipcode))
        info == IF mismatch
                THEN Location(zipcode, NULL, NULL, NULL, NULL, NULL,
                              NonePostcode, country)
                ELSE reply.info
        cannot_geocode == reply.info.lat = NULL \/ mismatch
    IN  IF unique_key /\ ZipcodeRows(zipcodes, zipcode, country) # {}
        THEN [exc |-> "ValueError", called |-> TRUE, inserted |-> FALSE]
        ELSE
        [exc |-> NULL, called |-> TRUE, info |-> info, inserted |-> TRUE,
         row |-> [zipcode |-> zipcode, latitude |-> info.lat,
                     longitude |-> info.long, elevation |-> info.elev,
                     city |-> info.city, state |-> info.state,
                     country |-> country, cannot_geocode |-> cannot_geocode]]

(* before: the table ag.zipcodes as the call found it; reply: what the
   resolver answered, if it was called *)
GetGeocodeZipcode ==
    \E zipcode \in Zipcodes, country \in Countries, unique_key \in BOOLEAN :
      \E reply \in GeocodeReplies(<<zipcode, country>>) :
        LET r == get_geocode_zipcode(zipcode, country, reply, unique_key)
        IN  /\ ret.op = "none"
            /\ Len(geocode_log) < MaxGeocodeCalls
            /\ ret' = [op |-> "get_geocode_zipcode", zipcode |-> zipcode,
                       country |-> country, reply |-> reply,
                       before |-> zipcodes, result |-> r]
            /\ geocode_log' = IF r.called
                              THEN Append(geocode_log,
                                          [query |-> <<zipcode, country>>,
                                           reply |-> reply])
                              ELSE geocode_log
            /\ zipcodes' = IF r.inserted
                           THEN Append(zipcodes, r.row)
                           ELSE zipcodes
            /\ UNCHANGED <<storeVars, redcap, ag_login>>

InitZipcode ==
    /\ ag_kit_barcodes = [b \in {} |-> NULL]
    /\ ag_handout_barcodes = {}
    /\ PlainSamples
    /\ NoProvisioning
    /\ redcap = [r \in RecordIds |-> NULL]
    /\ zipcodes = <<>>
    /\ ag_login = <<>>
    /\ geocode_log = <<>>
    /\ ret = [op |-> "none"]

NextZipcode ==
    \/ GetGeocodeZipcode
    \/ Return

SpecZipcode == InitZipcode /\ [][NextZipcode]_vars

-----------------------------------------------------------------------------
(* KniminAccess.addGeocodingInfo *)

Logins == 1..NumLogins

(* limit=None *)
NoLimit == -1

(* A row of ag_login, reduced to the columns addGeocodingInfo reads and
   writes *)
UnattemptedLogin ==
    [latitude |-> NULL, longitude |-> NULL, elevation |-> NULL,
     cannot_geocode |-> NULL]

(* address = '{0} {1} {2} {3}'.format(city, state, zipcode, country): every
   login has an address of its own *)
address(ag_login_id) == <<"address of login", ag_login_id>>

(* What geocode(address) can do for each login *)
LoginReplies ==
    {"GoogleAPILimitExceeded", "Exception", "not found", "found"}

(* SELECT ... FROM ag_login WHERE elevation is NULL AND cannot_geocode is NULL *)
sql_not_geocoded ==
    SelectSeq([l \in 1..NumLogins |-> l],
              LAMBDA l : ag_login[l].elevation = NULL
                         /\ ag_login[l].cannot_geocode = NULL)

(* sql_args of a geocode() call that returned: '' marks success *)
geocoded_args(reply, ag_login_id) ==
    IF reply = "found"
    THEN [latitude |-> "32.9", longitude |-> "-117.2", elevation |-> "100.0",
          cannot_geocode |-> "", ag_login_id |-> ag_login_id]
    ELSE [latitude |-> NULL, longitude |-> NULL, elevation |-> NULL,
          cannot_geocode |-> "", ag_login_id |-> ag_login_id]

(* sql_args of a geocode() call that raised another error *)
failed_args(ag_login_id) ==
    [latitude |-> NULL, longitude |-> NULL, elevation |-> NULL,
     cannot_geocode |-> "y", ag_login_id |-> ag_login_id]

(* A plausible slip: the quota signal is handled like any other error. *)
RECURSIVE geocode_loop_mark(_, _, _, _, _)
geocode_loop_mark(logins, row_counter, limit, replies, acc) ==
    IF Len(logins) = 0 \/ (limit # NoLimit /\ row_counter + 1 > limit)
    THEN acc
    ELSE geocode_loop_mark(Tail(logins), row_counter + 1, limit, replies,
             [calls |-> Append(acc.calls, Head(logins)),
              sql_args |-> Append(acc.sql_args,
                  IF replies[Head(logins)] \in {"Exception",
                                                "GoogleAPILimitExceeded"}
                  THEN failed_args(Head(logins))
                  ELSE geocoded_args(replies[Head(logins)], Head(logins)))])

(* A plausible slip: the quota signal ends the call at once (return where
   break is meant), so the updates collected so far are never executed. *)
RECURSIVE geocode_loop_return(_, _, _, _, _)
geocode_loop_return(logins, row_counter, limit, replies, acc) ==
    IF Len(logins) = 0 \/ (limit # NoLimit /\ row_counter + 1 > limit)
    THEN acc
    ELSE IF replies[Head(logins)] = "GoogleAPILimitExceeded"
    THEN [calls |-> Append(acc.calls, Head(logins)), sql_args |-> <<>>]
    ELSE geocode_loop_return(Tail(logins), row_counter + 1, limit, replies,
             [calls |-> Append(acc.calls, Head(logins)),
              sql_args |-> Append(acc.sql_args,
                  IF replies[Head(logins)] = "Exception"
                  THEN failed_args(Head(logins))
                  ELSE geocoded_args(replies[Head(logins)], Head(logins)))])

(* for city, state, zipcode, country, ag_login_id in logins: ...
   calls: the logins geocode() was called for; sql_args: the updates
   collected for executemany *)
RECURSIVE geocode_loop(_, _, _, _, _)
geocode_loop(logins, row_counter, limit, replies, acc) ==
    IF Len(logins) = 0 \/ (limit # NoLimit /\ row_counter + 1 > limit)
    THEN acc
    ELSE IF replies[Head(logins)] = "GoogleAPILimitExceeded"
    THEN [acc EXCEPT !.calls = Append(@, Head(logins))]
    ELSE geocode_loop(Tail(logins), row_counter + 1, limit, replies,
             [calls |-> Append(acc.calls, Head(logins)),
              sql_args |-> Append(acc.sql_args,
                  IF replies[Head(logins)] = "Exception"
                  THEN failed_args(Head(logins))
                  ELSE geocoded_args(replies[Head(logins)], Head(logins)))])

(* if retry: self._con.execute(sql) runs the UPDATE ... SET latitude = %s,
   longitude = %s, elevation = %s, cannot_geocode = %s with no argument
   bound to its four placeholders; the statement is rejected and
   _sql_executor raises ValueError. *)
clear_previous_attempts == [exc |-> "ValueError"]

addGeocodingInfo(limit, retry, replies) ==
    IF retry /\ clear_previous_attempts.exc # NULL
    THEN [exc |-> clear_previous_attempts.exc, calls |-> <<>>,
          sql_args |-> <<>>]
    ELSE [exc |-> NULL,
          calls |-> geocode_loop(sql_not_geocoded, 0, limit, replies,
                        [calls |-> <<>>, sql_args |-> <<>>]).calls,
          sql_args |-> geocode_loop(sql_not_geocoded, 0, limit, replies,
                        [calls |-> <<>>, sql_args |-> <<>>]).sql_args]

(* self._con.executemany(UPDATE ag_login SET ... WHERE ag_login_id = %s) *)
RECURSIVE executemany_update(_, _)
executemany_update(table, sql_args) ==
    IF Len(sql_args) = 0
    THEN table
    ELSE executemany_update(
             [table EXCEPT ![Head(sql_args).ag_login_id] =
                 [latitude |-> Head(sql_args).latitude,
                  longitude |-> Head(sql_args).longitude,
                  elevation |-> Head(sql_args).elevation,
                  cannot_geocode |-> Head(sql_args).cannot_geocode]],
             Tail(sql_args))

(* before: the table ag_login as the call found it *)
AddGeocodingInfo ==
    \E limit \in {NoLimit} \cup (1..NumLogins), retry \in BOOLEAN,
       replies \in [Logins -> LoginReplies] :
        LET r == addGeocodingInfo(limit, retry, replies)
        IN  /\ ret.op = "none"
            /\ Len(geocode_log) + Len(r.calls) <= MaxGeocodeCalls
            /\ retry => \A l \in Logins : replies[l] = "found"
            /\ \A l \in Logins :
                  (\A i \in DOMAIN r.calls : r.calls[i] # l)
                      => replies[l] = "found"
            /\ ret' = [op |-> "addGeocodingInfo", limit |-> limit,
                       retry |-> retry, replies |-> replies,
                       before |-> ag_login, result |-> r]
            /\ geocode_log' = geocode_log \o
                   [i \in 1..Len(r.calls) |->
                       [query |-> address(r.calls[i]),
                        reply |-> replies[r.calls[i]]]]
            /\ ag_login' = executemany_update(ag_login, r.sql_args)
            /\ UNCHANGED <<storeVars, redcap, zipcodes>>

InitGeocoding ==
    /\ ag_kit_barcodes = [b \in {} |-> NULL]
    /\ ag_handout_barcodes = {}
    /\ PlainSamples
    /\ NoProvisioning
    /\ redcap = [r \in RecordIds |-> NULL]
    /\ zipcodes = <<>>
    /\ ag_login = [l \in Logins |-> UnattemptedLogin]
    /\ geocode_log = <<>>
    /\ ret = [op |-> "none"]

NextGeocoding ==
    \/ AddGeocodingInfo
    \/ Return

SpecGeocoding == InitGeocoding /\ [][NextGeocoding]_vars

-----------------------------------------------------------------------------
(* Projects, barcode assignment, kits and external surveys.  Project names
   are sequences of characters, so that str.strip() is computed.  Every
   statement is committed on its own (SQLHandler._sql_executor). *)

MaxProjects == 2

AgKitIds == {"k1", "k2"}

(* 'American Gut Project' *)
AmericanGut == <<"A", "G", "P">>

ProjectNames == {<<>>, <<" ">>, AmericanGut, <<"P">>}

(* str.strip() *)
RECURSIVE lstrip(_)
lstrip(str) ==
    IF Len(str) > 0 /\ Head(str) = " " THEN lstrip(Tail(str)) ELSE str

RECURSIVE rstrip(_)
rstrip(str) ==
    IF Len(str) > 0 /\ str[Len(str)] = " "
    THEN rstrip(SubSeq(str, 1, Len(str) - 1))
    ELSE str

strip(str) == rstrip(lstrip(str))

(* SELECT EXISTS(SELECT * FROM project WHERE project = %s) *)
project_exists(name) == \E i \in DOMAIN project : project[i] = name

(* A plausible slip: the row is inserted before the name is looked up. *)
create_project_insert(name) ==
    IF strip(name) = <<>>
    THEN [exc |-> "ValueError", msg |-> <<"Project name can not be blank!">>,
          project |-> project]
    ELSE IF project_exists(name)
    THEN [exc |-> "ValueError", msg |-> <<"Project %s already exists!", name>>,
          project |-> Append(project, name)]
    ELSE [exc |-> NULL, project |-> Append(project, name)]

(* INSERT INTO project (project_id, project)
   SELECT max(project_id)+1, %s FROM project: the new row gets the next id.
   project: the table after the call. *)
create_project(name) ==
    IF strip(name) = <<>>
    THEN [exc |-> "ValueError", msg |-> <<"Project name can not be blank!">>,
          project |-> project]
    ELSE IF project_exists(name)
    THEN [exc |-> "ValueError", msg |-> <<"Project %s already exists!", name>>,
          project |-> project]
    ELSE [exc |-> NULL, project |-> Append(project, name)]

(* SELECT DISTINCT barcode FROM barcodes.barcode
   LEFT JOIN barcodes.project_barcode pb USING (barcode)
   WHERE pb.barcode IS NULL ORDER BY barcode ASC *)
sql_unassigned ==
    SelectSeq([i \in 1..NumBarcodes |-> BarcodeNames[i]],
              LAMBDA b : \A pb \in project_barcode : pb[1] # b)

(* n = NoLimit stands for n=None: no LIMIT, and len(barcodes) < None is
   False. *)
get_unassigned_barcodes(n) ==
    IF n = NoLimit
    THEN [exc |-> NULL, barcodes |-> sql_unassigned]
    ELSE IF Len(sql_unassigned) < n
    THEN [exc |-> "ValueError",
          msg |-> <<"Not enough barcodes! %d asked for, %d remaining", n,
                    Len(sql_unassigned)>>]
    ELSE [exc |-> NULL, barcodes |-> SubSeq(sql_unassigned, 1, n)]

Range(seq) == {seq[i] : i \in DOMAIN seq}

(* project_inserts: every barcode with every project id *)
project_inserts(barcodes, proj_ids) == Range(barcodes) \X proj_ids

(* projects: the set of the names in the list given.  project_barcode: the
   table after the call.  The UPDATE of barcodes.barcode sets assigned_on,
   a column no query of the model reads. *)
assign_barcodes(num_barcodes, projects) ==
    IF {p \in projects : ~project_exists(p)} # {}
    THEN [exc |-> "ValueError",
          msg |-> <<"Project(s) given don't exist in database: %s",
                    {p \in projects : ~project_exists(p)}>>,
          project_barcode |-> project_barcode]
    ELSE IF get_unassigned_barcodes(num_barcodes).exc # NULL
    THEN [exc |-> "ValueError",
          msg |-> get_unassigned_barcodes(num_barcodes).msg,
          project_barcode |-> project_barcode]
    ELSE [exc |-> NULL,
          barcodes |-> get_unassigned_barcodes(num_barcodes).barcodes,
          project_barcode |-> project_barcode \cup
              project_inserts(
                  get_unassigned_barcodes(num_barcodes).barcodes,
                  {i \in DOMAIN project : project[i] \in projects})]

(* SELECT DISTINCT project_id FROM barcodes.project_barcode
   JOIN ag.ag_kit_barcodes USING (barcode) WHERE ag_kit_id = %s *)
kit_project_ids(ag_kit_id) ==
    {pb[2] : pb \in {x \in project_barcode :
                        <<ag_kit_id, x[1]>> \in kit_barcode_rows}}

(* The row INSERT INTO ag_kit_barcodes (ag_kit_id, barcode,
   sample_barcode_file) makes, in the columns the classifier reads *)
NewKitBarcodeRow ==
    [survey_id |-> NULL, withdrawn |-> NULL, sample_date |-> NULL,
     environment_sampled |-> NULL]

(* unique_key: whether ag_kit_barcodes refuses a second row for a barcode
   (its schema is not among the sources); the refused executemany is rolled
   back and raises ValueError, after the project rows were committed. *)
add_barcodes_to_kit(ag_kit_id, num_barcodes, unique_key) ==
    LET got == get_unassigned_barcodes(num_barcodes)
    IN  IF got.exc # NULL
        THEN [exc |-> "ValueError", msg |-> got.msg,
              project_barcode |-> project_barcode,
              kit_barcode_rows |-> kit_barcode_rows]
        ELSE IF unique_key /\ \E r \in kit_barcode_rows :
                                  r[2] \in Range(got.barcodes)
        THEN [exc |-> "ValueError", msg |-> <<"Error running SQL query">>,
              project_barcode |-> project_barcode \cup
                  project_inserts(got.barcodes, kit_project_ids(ag_kit_id)),
              kit_barcode_rows |-> kit_barcode_rows]
        ELSE [exc |-> NULL, barcodes |-> got.barcodes,
              project_barcode |-> project_barcode \cup
                  project_inserts(got.barcodes, kit_project_ids(ag_kit_id)),
              kit_barcode_rows |-> kit_barcode_rows \cup
                  {<<ag_kit_id, b>> : b \in Range(got.barcodes)}]

(* survey_ids: the survey ids of the lines of in_file.
   answers: the table ag.external_survey_answers after the call. *)
store_external_survey(survey_ids, ext_survey) ==
    IF ext_survey \notin ExternalSurveys
    THEN [exc |-> "ValueError",
          msg |-> <<"Unknown external survey: %s", ext_survey>>,
          answers |-> external_survey_answers]
    ELSE [exc |-> NULL, count |-> Cardinality(survey_ids),
          answers |-> external_survey_answers \cup
                          ({ext_survey} \X survey_ids)]

CreateProject ==
    \E name \in ProjectNames :
        /\ ret.op = "none"
        /\ Len(project) < MaxProjects
        /\ ret' = [op |-> "create_project", name |-> name,
                   result |-> create_project(name)]
        /\ project' = create_project(name).project
        /\ UNCHANGED <<ag_kit_barcodes, ag_handout_barcodes, site_sampled,
                       external_survey_answers, project_barcode,
                       kit_barcode_rows, redcap, geoVars>>

AssignBarcodes ==
    \E n \in 1..NumBarcodes, projects \in SUBSET ProjectNames \ {{}} :
        /\ ret.op = "none"
        /\ ret' = [op |-> "assign_barcodes", num_barcodes |-> n,
                   projects |-> projects,
                   result |-> assign_barcodes(n, projects)]
        /\ project_barcode' = assign_barcodes(n, projects).project_barcode
        /\ UNCHANGED <<ag_kit_barcodes, ag_handout_barcodes, site_sampled,
                       external_survey_answers, project, kit_barcode_rows,
                       redcap, geoVars>>

GetUnassignedBarcodes ==
    \E n \in {NoLimit} \cup (1..NumBarcodes) :
        /\ ret.op = "none"
        /\ ret' = [op |-> "get_unassigned_barcodes", n |-> n,
                   result |-> get_unassigned_barcodes(n)]
        /\ UNCHANGED <<storeVars, redcap, geoVars>>

AddBarcodesToKit ==
    \E ag_kit_id \in AgKitIds, n \in 1..NumBarcodes, unique_key \in BOOLEAN :
        LET r == add_barcodes_to_kit(ag_kit_id, n, unique_key)
        IN  /\ ret.op = "none"
            /\ ret' = [op |-> "add_barcodes_to_kit", ag_kit_id |-> ag_kit_id,
                       num_barcodes |-> n, result |-> r]
            /\ project_barcode' = r.project_barcode
            /\ kit_barcode_rows' = r.kit_barcode_rows
            /\ ag_kit_barcodes' =
                   [b \in DOMAIN ag_kit_barcodes
                           \cup {x[2] : x \in r.kit_barcode_rows} |->
                       IF b \in DOMAIN ag_kit_barcodes
                       THEN ag_kit_barcodes[b] ELSE NewKitBarcodeRow]
            /\ UNCHANGED <<ag_handout_barcodes, site_sampled,
                           external_survey_answers, project, redcap, geoVars>>

StoreExternalSurvey ==
    \E survey_ids \in SUBSET SurveyIds,
       ext_survey \in ExternalSurveys \cup {"Unknown survey"} :
        /\ ret.op = "none"
        /\ ret' = [op |-> "store_external_survey", survey_ids |-> survey_ids,
                   ext_survey |-> ext_survey,
                   result |-> store_external_survey(survey_ids, ext_survey)]
        /\ external_survey_answers' =
               store_external_survey(survey_ids, ext_survey).answers
        /\ UNCHANGED <<ag_kit_barcodes, ag_handout_barcodes, site_sampled,
                       project, project_barcode, kit_barcode_rows, redcap,
                       geoVars>>

(* The project table holds 'American Gut Project'; the first barcode may
   already be assigned to it and may already belong to the first kit. *)
InitProvision ==
    /\ project = <<AmericanGut>>
    /\ project_barcode \in SUBSET {<<BarcodeNames[1], 1>>}
    /\ kit_barcode_rows \in SUBSET {<<"k1", BarcodeNames[1]>>}
    /\ ag_kit_barcodes =
           [b \in {x[2] : x \in kit_barcode_rows} |-> NewKitBarcodeRow]
    /\ ag_handout_barcodes = {}
    /\ PlainSamples
    /\ redcap = [r \in RecordIds |-> NULL]
    /\ zipcodes = <<>>
    /\ ag_login = <<>>
    /\ geocode_log = <<>>
    /\ ret = [op |-> "none"]

NextProvision ==
    \/ CreateProject
    \/ AssignBarcodes
    \/ GetUnassignedBarcodes
    \/ AddBarcodesToKit
    \/ StoreExternalSurvey
    \/ Return

SpecProvision == InitProvision /\ [][NextProvision]_vars

-----------------------------------------------------------------------------
(* Claims about the classifier *)

Registered(b) == b \in DOMAIN ag_kit_barcodes

(* The reason of the first predicate, in the fixed order, that b satisfies. *)
FirstReason(b) ==
    IF ~Registered(b) /\ b \notin ag_handout_barcodes THEN "Not an AG barcode"
    ELSE IF b \in ag_handout_barcodes THEN "Unassigned handout kit barcode"
    ELSE IF ag_kit_barcodes[b].withdrawn = "Y" THEN "Withdrawn sample"
    ELSE IF ag_kit_barcodes[b].sample_date = NULL THEN "Sample not logged"
    ELSE IF ag_kit_barcodes[b].environment_sampled # NULL
         THEN "Environmental sample"
    ELSE IF ag_kit_barcodes[b].survey_id = NULL
         THEN "Sample logged without consent"
    ELSE "Unknown reason"

(* C1: for every set of barcodes and every store state,
   _explain_pulldown_failures gives each barcode of the set exactly the reason
   of the first predicate it satisfies in the order: not an AG barcode,
   handout, withdrawn, no sample date, environmental, no survey id, unknown;
   so a withdrawn barcode without a sample date is reported as withdrawn. *)
C1_FirstPredicateWins ==
    ret.op = "_explain_pulldown_failures" =>
        /\ DOMAIN ret.result.fail_reason = ret.barcodes
        /\ \A b \in ret.barcodes : ret.result.fail_reason[b] = FirstReason(b)

(* A withdrawn, never logged barcode was classified together with another
   barcode that a later predicate explains. *)
C1_Witness ==
    /\ ret.op = "_explain_pulldown_failures"
    /\ \E b, c \in ret.barcodes :
        /\ Registered(b) /\ b \notin ag_handout_barcodes
        /\ ag_kit_barcodes[b].withdrawn = "Y"
        /\ ag_kit_barcodes[b].sample_date = NULL
        /\ ret.result.fail_reason[b] = "Withdrawn sample"
        /\ ret.result.fail_reason[c] = "Sample not logged"

(* C2: check_consent(B) returns as consented exactly the barcodes of B that
   are registered with a non-null survey_id; the failures are keyed by exactly
   the other barcodes of B, each with one reason of the taxonomy, and no
   consented barcode has a reason. *)
C2_ConsentPartition ==
    ret.op = "check_consent" =>
        /\ ret.result.consented =
              {b \in ret.barcodes :
                  Registered(b) /\ ag_kit_barcodes[b].survey_id # NULL}
        /\ DOMAIN ret.result.failures = ret.barcodes \ ret.result.consented
        /\ \A b \in DOMAIN ret.result.failures :
              ret.result.failures[b] = FirstReason(b)

(* One consented barcode and one registered barcode without a sample date
   were checked together. *)
C2_Witness ==
    /\ ret.op = "check_consent"
    /\ \E b, c \in ret.barcodes :
        /\ ret.result.consented = {b}
        /\ Registered(c) /\ c \notin ag_handout_barcodes
        /\ ret.result.failures = (c :> "Sample not logged")

-----------------------------------------------------------------------------
(* Claims about pulldown and _batch_grab *)

RowKeys(formatted) ==
    UNION {IndexOf(formatted[t]) : t \in DOMAIN formatted}

(* C3: when pulldown returns, the keys of its failure map are the requested
   barcodes minus the row keys of all the formatted tables, whatever the
   order of the survey types; if every requested barcode is a row key of
   some table, the failure map is empty. *)
C3_FailuresComplementAllTables ==
    (ret.op = "pulldown" /\ ret.result.exc = NULL) =>
        DOMAIN ret.result.failures =
            ret.barcodes \ RowKeys(ret.result.formatted)

NumChunks(records, batch_size) == Len(chunks(records, batch_size))

(* C4: if the export call of any chunk of a multi-chunk _batch_grab fails,
   whatever the position of the chunk, _batch_grab raises an error naming
   the batch size and returns no table. *)
C4_ChunkFailureRaises ==
    (/\ ret.op \in {"_batch_grab", "redcap._batch_grab"}
     /\ \E k \in 1..NumChunks(ret.records, ret.batch_size) :
            k \in ret.failing) =>
        /\ ret.result.exc =
              (IF ret.op = "_batch_grab" THEN "RuntimeError" ELSE "ValueError")
        /\ ret.result.msg[2] = ret.batch_size
        /\ "table" \notin DOMAIN ret.result

(* The middle one of three chunks failed, and the other two held rows. *)
C4_Witness ==
    /\ ret.op = "_batch_grab"
    /\ NumChunks(ret.records, ret.batch_size) = 3
    /\ ret.failing = {2}
    /\ \A r \in {ret.records[1], ret.records[3]} : redcap[r] = ret.survey
    /\ ret.result.exc = "RuntimeError"

(* C5: when every export call succeeds, the table _batch_grab returns holds
   the rows of every chunk, not only those of the first. *)
C5_AllChunksMerged ==
    (ret.op = "_batch_grab" /\ ret.result.exc = NULL) =>
        ret.result.table = export_records(ret.records, ret.survey)

-----------------------------------------------------------------------------
(* Claims about geocoding *)

(* C6: a non-empty (zipcode, country) pair is sent to the geocode resolver
   at most once: resolving it again issues no second call. *)
C6_ResolvedOnce ==
    \A i, j \in DOMAIN geocode_log :
        i < j => geocode_log[i].query # geocode_log[j].query

Called(l) == \E i \in DOMAIN ret.result.calls : ret.result.calls[i] = l

(* C7: a login whose geocoding failed with a non-quota error is marked
   cannot_geocode = 'y'; addGeocodingInfo(retry=False) calls the resolver
   for no marked login; addGeocodingInfo(retry=True) clears the markers and
   calls the resolver for the logins that were marked. *)
C7_NegativeMarkerAndRetry ==
    ret.op = "addGeocodingInfo" =>
        /\ \A l \in Logins :
              (Called(l) /\ ret.replies[l] = "Exception")
                  => ag_login[l].cannot_geocode = "y"
        /\ ~ret.retry =>
              \A l \in Logins :
                  ret.before[l].cannot_geocode = "y" => ~Called(l)
        /\ (ret.retry /\ ret.limit = NoLimit) =>
              \A l \in Logins :
                  ret.before[l].cannot_geocode = "y" => Called(l)

(* C8: when the resolver signals quota exhaustion for a login, no further
   resolver call is made in that run, and that login and every selected
   login after it keep elevation NULL and cannot_geocode NULL, so that a
   later run selects them again. *)
C8_QuotaStopsLoop ==
    (ret.op = "addGeocodingInfo" /\ ret.result.exc = NULL) =>
        \A k \in DOMAIN ret.result.calls :
            ret.replies[ret.result.calls[k]] = "GoogleAPILimitExceeded" =>
                /\ k = Len(ret.result.calls)
                /\ \A l \in Logins :
                      (/\ ret.before[l] = UnattemptedLogin
                       /\ (l = ret.result.calls[k] \/ ~Called(l)))
                      => /\ ag_login[l] = UnattemptedLogin
                         /\ \E i \in DOMAIN sql_not_geocoded :
                                sql_not_geocoded[i] = l

(* The quota signal came on the second login of a run, after a first login
   that was geocoded, with a third login still waiting. *)
C8_Witness ==
    /\ ret.op = "addGeocodingInfo"
    /\ Len(ret.result.calls) = 2
    /\ ret.replies[ret.result.calls[1]] = "found"
    /\ ret.replies[ret.result.calls[2]] = "GoogleAPILimitExceeded"
    /\ \E l \in Logins : ret.before[l] = UnattemptedLogin /\ ~Called(l)
    /\ ag_login[ret.result.calls[2]] = UnattemptedLogin

-----------------------------------------------------------------------------
(* Claims about the formatters *)

BarcodesOf(table) == {table[i].BARCODE : i \in 1..Len(table)}

(* The backbone barcodes whose survey id has no raw-answer row *)
Unanswered(data, backbone) ==
    {backbone[i].BARCODE : i \in {j \in 1..Len(backbone) :
                                     backbone[j].index \notin IndexOf(data)}}

(* C9: the Human table and the Other table hold no row for a backbone
   barcode whose survey id has no raw-answer row (this holds of the table
   _format_human returns and of its join of data and backbone), whereas the
   Animal table holds a row for every backbone barcode. *)
C9_JoinPolicy ==
    ret.op = "format" =>
        /\ (ret.survey # "Animal" /\ ret.result.exc = NULL) =>
              BarcodesOf(ret.result.table)
                  \cap Unanswered(ret.data, ret.backbone) = {}
        /\ ret.survey = "Human" =>
              BarcodesOf(human_combine(ret.data, ret.backbone))
                  \cap Unanswered(ret.data, ret.backbone) = {}
        /\ ret.survey = "Animal" =>
              /\ ret.result.exc = NULL
              /\ BarcodesOf(ret.backbone) \subseteq BarcodesOf(ret.result.table)

(* An Animal table was formatted from raw rows, with a backbone barcode
   whose survey id has no raw row. *)
C9_Witness ==
    /\ ret.op = "format"
    /\ ret.survey = "Animal"
    /\ Len(ret.data) > 0
    /\ Unanswered(ret.data, ret.backbone) # {}
    /\ Unanswered(ret.data, ret.backbone) \subseteq BarcodesOf(ret.result.table)

(* C10: every table a formatter returns has the barcode as the key of each
   row, and no key occurs twice. *)
C10_KeyedByBarcode ==
    (ret.op = "format" /\ ret.result.exc = NULL) =>
        /\ \A i \in DOMAIN ret.result.table :
              ret.result.table[i].index = ret.result.table[i].BARCODE
        /\ \A i, j \in DOMAIN ret.result.table :
              i # j => ret.result.table[i].index # ret.result.table[j].index

-----------------------------------------------------------------------------
(* Claims about the Human table and the result of pulldown *)

(* The raw rows the batch export gives pulldown for a survey type *)
RawRows(survey) ==
    export_records(get_records_for_barcodes(ret.barcodes), survey)

(* C11: when pulldown is called with external survey names and the Human
   survey has raw rows, pulldown returns a Human table that holds the
   columns of each named external survey, also when some subject has no
   external answers; without external names no external column appears. *)
C11_ExternalColumnsJoined ==
    (ret.op = "pulldown" /\ Len(RawRows("Human")) > 0) =>
        /\ ret.external # NoExternal =>
              /\ ret.result.exc = NULL
              /\ "Human" \in DOMAIN ret.result.formatted
              /\ \A i \in DOMAIN ret.external :
                    ExternalColumns(ret.external[i])
                        \subseteq ret.result.human_columns
        /\ (ret.external = NoExternal /\ ret.result.exc = NULL) =>
              \A e \in ExternalSurveys :
                  ExternalColumns(e) \cap ret.result.human_columns = {}

(* C12: when no survey type has a raw row for the requested barcodes,
   pulldown does not raise: it returns an empty table mapping and a failure
   map with a reason for every requested barcode. *)
C12_NothingFoundReturns ==
    (/\ ret.op = "pulldown"
     /\ ret.failing = {}
     /\ ret.barcodes # {}
     /\ \A t \in SurveyTypes : Len(RawRows(t)) = 0) =>
        /\ ret.result.exc = NULL
        /\ DOMAIN ret.result.formatted = {}
        /\ DOMAIN ret.result.failures = ret.barcodes

(* C13: the table mapping pulldown returns has a key for a survey type if
   and only if the batch export of that survey type returned at least one
   raw row. *)
C13_KeysAreTypesWithRows ==
    (ret.op = "pulldown" /\ ret.result.exc = NULL) =>
        DOMAIN ret.result.formatted =
            {t \in SurveyTypes :
                Len(_batch_grab(t, get_records_for_barcodes(ret.barcodes),
                                DefaultBatchSize, {}).table) > 0}

(* pulldown returned a mapping with the Animal table and without the Other
   table, whose export had no row. *)
C13_Witness ==
    /\ ret.op = "pulldown"
    /\ ret.result.exc = NULL
    /\ Len(RawRows("Animal")) > 0
    /\ Len(RawRows("Other")) = 0
    /\ "Animal" \in DOMAIN ret.result.formatted
    /\ "Other" \notin DOMAIN ret.result.formatted

(* C14: _format_human called on raw rows with full=False returns a Human
   table without any column of ebi_remove, with full=True a Human table
   that keeps those columns, and in both cases without any column of
   redcap_remove. *)
C14_ExclusionLists ==
    (ret.op = "_format_human" /\ Len(ret.data) > 0
     /\ IndexOf(ret.data) \subseteq IndexOf(ret.backbone)
     /\ ret.external = NoExternal) =>
        /\ ret.result.exc = NULL
        /\ ret.result.columns \cap redcap_remove = {}
        /\ ret.full => ebi_remove \subseteq ret.result.columns
        /\ ~ret.full => ret.result.columns \cap ebi_remove = {}

(* The barcodes of the Human table whose sample site md_lookup lacks *)
UnknownSiteBarcodes(data, backbone) ==
    {backbone[i].BARCODE : i \in {j \in 1..Len(backbone) :
        /\ backbone[j].index \in IndexOf(data)
        /\ site_sampled[backbone[j].BARCODE] \notin md_lookup}}

(* C15: if the sample site of a barcode of the Human table has no entry in
   the body-site lookup, _format_human fails with an error that names the
   barcode and the site, and returns no table. *)
C15_UnknownSiteNamed ==
    (ret.op = "_format_human"
     /\ UnknownSiteBarcodes(ret.data, ret.backbone) # {}) =>
        /\ ret.result.exc = "KeyError"
        /\ "table" \notin DOMAIN ret.result
        /\ ret.result.msg[2] \in UnknownSiteBarcodes(ret.data, ret.backbone)
        /\ ret.result.msg[3] = site_sampled[ret.result.msg[2]]

BlankRows(table, blanks) ==
    {i \in 1..Len(table) : \E k \in DOMAIN blanks : table[i].index = blanks[k]}

(* C16: when blanks are passed to pulldown and the Human survey has raw
   rows, the Human table returned holds one more row for each blank, every
   column of it holding the placeholder, after the unchanged rows of the
   real barcodes, and no other table holds a blank row. *)
C16_BlanksInHumanOnly ==
    (ret.op = "pulldown" /\ ret.blanks # NoBlanks
     /\ Len(RawRows("Human")) > 0) =>
        /\ ret.result.exc = NULL
        /\ "Human" \in DOMAIN ret.result.formatted
        /\ LET table == ret.result.formatted["Human"]
               real == Len(table) - Len(ret.blanks)
           IN  /\ real >= 0
               /\ SubSeq(table, real + 1, Len(table)) = blanks_df(ret.blanks)
               /\ SubSeq(table, 1, real) =
                      _format_human(RawRows("Human"),
                                    get_barcode_surveys(ret.barcodes),
                                    ret.external, ret.full).table
        /\ \A t \in DOMAIN ret.result.formatted \ {"Human"} :
              BlankRows(ret.result.formatted[t], ret.blanks) = {}

-----------------------------------------------------------------------------
(* More claims about the classifier *)

(* C17: _explain_pulldown_failures gives the reason 'Unassigned handout kit
   barcode' only to barcodes that are in the handout set and not in the
   registered-sample set. *)
C17_HandoutReasonOnlyUnregistered ==
    ret.op = "_explain_pulldown_failures" =>
        \A b \in DOMAIN ret.result.fail_reason :
            ret.result.fail_reason[b] = "Unassigned handout kit barcode" =>
                b \in ag_handout_barcodes /\ ~Registered(b)

-----------------------------------------------------------------------------
(* More claims about geocoding *)

(* C18: calling get_geocode_zipcode again with a non-empty (zipcode,
   country) already stored neither fails nor adds a second entry: the
   zipcode table never holds two rows for one pair. *)
C18_ZipcodeWriteIdempotent ==
    /\ \A i, j \in DOMAIN zipcodes :
          (/\ zipcodes[i].zipcode = zipcodes[j].zipcode
           /\ zipcodes[i].country = zipcodes[j].country) => i = j
    /\ (ret.op = "get_geocode_zipcode"
        /\ ZipcodeRows(ret.before, ret.zipcode, ret.country) # {}) =>
          ret.result.exc # "ValueError"

(* C19: after addGeocodingInfo(limit) completes, the resolver was called
   for at most limit logins, and every login whose resolver call completed
   without quota exhaustion holds either non-null coordinates or
   cannot_geocode = 'y'. *)
C19_AttemptedAreSettled ==
    (ret.op = "addGeocodingInfo" /\ ret.result.exc = NULL) =>
        /\ ret.limit # NoLimit => Len(ret.result.calls) <= ret.limit
        /\ \A l \in Logins :
              (Called(l) /\ ret.replies[l] # "GoogleAPILimitExceeded") =>
                  \/ /\ ag_login[l].latitude # NULL
                     /\ ag_login[l].longitude # NULL
                     /\ ag_login[l].elevation # NULL
                  \/ ag_login[l].cannot_geocode = "y"

(* The resolver answered the last call with coordinates of another country
   or of a postcode that, normalized, does not start with the normalized
   zipcode asked for. *)
ResolverMismatch ==
    /\ ret.op = "get_geocode_zipcode"
    /\ ret.result.called
    /\ ret.reply.exc = NULL
    /\ ret.reply.info.lat # NULL
    /\ \/ ret.reply.info.country # ret.country
       \/ ~startswith(remove_spaces(lower(ret.reply.info.postcode)),
                      before_dash(remove_spaces(lower(ret.zipcode))))

(* C20: on such an answer for a pair not stored yet, get_geocode_zipcode
   returns a Location holding only the zipcode and the country, and stores
   a row with null latitude, longitude, elevation, city and state and the
   cannot_geocode marker set. *)
C20_MismatchIsNegative ==
    (ResolverMismatch
     /\ ZipcodeRows(ret.before, ret.zipcode, ret.country) = {}) =>
        /\ ret.result.exc = NULL
        /\ ret.result.info =
              Location(ret.zipcode, NULL, NULL, NULL, NULL, NULL,
                       NonePostcode, ret.country)
        /\ zipcodes = Append(ret.before,
              [zipcode |-> ret.zipcode, latitude |-> NULL,
               longitude |-> NULL, elevation |-> NULL, city |-> NULL,
               state |-> NULL, country |-> ret.country,
               cannot_geocode |-> TRUE])

(* The resolver answered with the country asked for and a postcode that
   does not start with the zipcode asked for. *)
C20_Witness ==
    /\ ResolverMismatch
    /\ ZipcodeRows(ret.before, ret.zipcode, ret.country) = {}
    /\ ret.reply.info.country = ret.country
    /\ zipcodes[Len(zipcodes)].cannot_geocode = TRUE
    /\ zipcodes[Len(zipcodes)].latitude = NULL

-----------------------------------------------------------------------------
(* Claims about the classifier as a whole *)

(* C23: _explain_pulldown_failures called with an empty set of barcodes
   returns the empty reason map and sends no query to the store. *)
C23_EmptyInputNoQuery ==
    (ret.op = "_explain_pulldown_failures" /\ ret.barcodes = {}) =>
        /\ ret.result.fail_reason = EmptyDict
        /\ ret.result.queries = 0

(* The classifier was called with no barcode on a store that holds both
   registered and handout barcodes. *)
C23_Witness ==
    /\ ret.op = "_explain_pulldown_failures"
    /\ ret.barcodes = {}
    /\ ret.result.queries = 0
    /\ DOMAIN ag_kit_barcodes # {}
    /\ ag_handout_barcodes # {}

(* C26: check_consent never reports 'Unknown reason', for every store and
   every set of barcodes; _explain_pulldown_failures reports it only for a
   registered barcode that has a survey link. *)
C26_UnknownReasonUnreachable ==
    /\ ret.op = "check_consent" =>
          \A b \in DOMAIN ret.result.failures :
              ret.result.failures[b] # "Unknown reason"
    /\ ret.op = "_explain_pulldown_failures" =>
          \A b \in DOMAIN ret.result.fail_reason :
              ret.result.fail_reason[b] = "Unknown reason" =>
                  Registered(b) /\ ag_kit_barcodes[b].survey_id # NULL

(* check_consent was called with a consented barcode and a logged,
   unconsented one, which got the last named reason. *)
C26_Witness ==
    /\ ret.op = "check_consent"
    /\ \E b, c \in ret.barcodes :
        /\ b \in ret.result.consented
        /\ ag_kit_barcodes[b].withdrawn = NULL
        /\ ag_kit_barcodes[b].sample_date # NULL
        /\ ag_kit_barcodes[b].environment_sampled = NULL
        /\ b \notin ag_handout_barcodes
        /\ c \in DOMAIN ret.result.failures
        /\ ret.result.failures[c] = "Sample logged without consent"

(* C27: the reason _explain_pulldown_failures gives a barcode b of the set
   S is the reason it gives b when called on {b} alone, whatever the other
   barcodes of S and whichever early return is taken. *)
C27_ReasonIndependentOfOthers ==
    ret.op = "_explain_pulldown_failures" =>
        \A b \in ret.barcodes :
            /\ b \in DOMAIN ret.result.fail_reason
            /\ ret.result.fail_reason[b] =
                  _explain_pulldown_failures({b}).fail_reason[b]

(* A barcode that is not an AG barcode was classified together with a
   registered one that only the last query explains: called alone, the
   first returns after one query. *)
C27_Witness ==
    /\ ret.op = "_explain_pulldown_failures"
    /\ ret.result.queries = 6
    /\ \E b, c \in ret.barcodes :
        /\ ret.result.fail_reason[b] = "Not an AG barcode"
        /\ _explain_pulldown_failures({b}).queries = 1
        /\ ret.result.fail_reason[c] = "Sample logged without consent"

-----------------------------------------------------------------------------
(* More claims about _batch_grab *)

(* ceil(n / s) *)
Ceil(n, s) == CHOOSE k \in 0..n : k * s >= n /\ (k = 0 \/ (k - 1) * s < n)

(* C25: for a list of n >= 1 record ids and a batch size s >= 1, when no
   export call fails, _batch_grab sends exactly ceil(n/s) export calls of at
   most s record ids each, and the chunks sent, put end to end in the order
   of the calls, are the record-id list itself: each record id is sent in
   exactly one call. *)
C25_ChunksPartitionRecords ==
    (ret.op = "_batch_grab" /\ Len(ret.records) >= 1 /\ ret.failing = {}) =>
        /\ Len(ret.result.exports) = Ceil(Len(ret.records), ret.batch_size)
        /\ \A k \in DOMAIN ret.result.exports :
              /\ Len(ret.result.exports[k]) <= ret.batch_size
              /\ Len(ret.result.exports[k]) >= 1
        /\ Flatten(ret.result.exports) = ret.records

(* Three record ids were exported with batch size two: two calls, the
   second with the one id left. *)
C25_Witness ==
    /\ ret.op = "_batch_grab"
    /\ ret.failing = {}
    /\ Len(ret.records) = 3
    /\ ret.batch_size = 2
    /\ Len(ret.result.exports) = 2
    /\ Len(ret.result.exports[2]) = 1

-----------------------------------------------------------------------------
(* More claims about addGeocodingInfo *)

(* The run ended on the quota signal of its last resolver call. *)
StoppedOnQuota ==
    /\ ret.op = "addGeocodingInfo"
    /\ ret.result.exc = NULL
    /\ Len(ret.result.calls) >= 1
    /\ ret.replies[ret.result.calls[Len(ret.result.calls)]]
          = "GoogleAPILimitExceeded"

(* C30: when addGeocodingInfo stops on the quota signal, what the resolver
   answered for the logins processed before the signal is written to the
   store: a login that was found holds its coordinates, a login whose call
   failed holds the marker 'y', and none of them is selected by a later
   run. *)
C30_ResultsBeforeQuotaPersisted ==
    StoppedOnQuota =>
        \A k \in 1..(Len(ret.result.calls) - 1) :
            LET l == ret.result.calls[k]
            IN  /\ ret.replies[l] = "found" =>
                      /\ ag_login[l].latitude # NULL
                      /\ ag_login[l].longitude # NULL
                      /\ ag_login[l].elevation # NULL
                /\ ret.replies[l] = "Exception" =>
                      ag_login[l].cannot_geocode = "y"
                /\ ag_login[l].cannot_geocode # NULL
                /\ \A i \in DOMAIN sql_not_geocoded : sql_not_geocoded[i] # l

(* The quota signal came on the third login, after one login that was found
   and one whose call failed. *)
C30_Witness ==
    /\ StoppedOnQuota
    /\ Len(ret.result.calls) = 3
    /\ ret.replies[ret.result.calls[1]] = "found"
    /\ ret.replies[ret.result.calls[2]] = "Exception"
    /\ ag_login[ret.result.calls[1]].elevation = "100.0"
    /\ ag_login[ret.result.calls[2]].cannot_geocode = "y"

-----------------------------------------------------------------------------
(* More claims about the Human table *)

(* C22: the SUBSET_AGE flag is true exactly when the age is reported and
   lies in [19, 70): true for 19, false for 70 and for 'Unspecified'. *)
C22_SubsetAgeInterval ==
    ret.op = "SUBSET_AGE" =>
        (ret.result <=>
            (~ret.age.unspecified /\ 19 <= ret.age.years /\ ret.age.years < 70))

(* The raw rows whose survey id has no barcode in the backbone *)
Unlinked(data, backbone) ==
    {i \in 1..Len(data) : data[i].index \notin IndexOf(backbone)}

(* C24: when some raw row of the Human survey has a survey id without a
   backbone barcode, _format_human raises no error and returns a table
   that holds the barcodes of the other raw rows and no row for that one,
   in particular no row with a missing barcode. *)
C24_UnlinkedRowsDropped ==
    (/\ ret.op = "_format_human"
     /\ ret.external = NoExternal
     /\ Unlinked(ret.data, ret.backbone) # {}
     /\ UnknownSiteBarcodes(ret.data, ret.backbone) = {}) =>
        /\ ret.result.exc = NULL
        /\ BarcodesOf(ret.result.table) =
              {ret.backbone[j].BARCODE : j \in {k \in 1..Len(ret.backbone) :
                  ret.backbone[k].index \in IndexOf(ret.data)}}
        /\ NULL \notin BarcodesOf(ret.result.table)

(* C29: in the geolocated Human table every row carries the census and
   economic region of its own resolved state ('Unspecified' for a state
   without regions), whatever the order of the rows. *)
C29_RegionsOfOwnState ==
    ret.op = "_geolocate regions" =>
        \A i \in DOMAIN ret.states :
            ret.result[i] = regions_of(ret.states[i])

-----------------------------------------------------------------------------
(* Claims about projects, barcode assignment and kits *)

(* The call r, made in the current store, has an input error. *)
InputError(r) ==
    \/ /\ r.op = "create_project"
       /\ (strip(r.name) = <<>> \/ project_exists(r.name))
    \/ /\ r.op = "assign_barcodes"
       /\ \E p \in r.projects : ~project_exists(p)
    \/ /\ r.op = "store_external_survey"
       /\ r.ext_survey \notin ExternalSurveys

(* C21: create_project with a blank or already existing name,
   assign_barcodes naming a project that does not exist and
   store_external_survey naming an unknown survey each raise an error and
   leave every table of the store as it was. *)
C21_InputErrorLeavesStore ==
    [][InputError(ret') =>
          /\ ret'.result.exc = "ValueError"
          /\ UNCHANGED storeVars]_vars

(* assign_barcodes was refused for a project that does not exist, named next
   to one that does, while an unassigned barcode was available. *)
C21_Witness ==
    /\ ret.op = "assign_barcodes"
    /\ ret.result.exc = "ValueError"
    /\ ret.result.msg[1] = "Project(s) given don't exist in database: %s"
    /\ \E p \in ret.projects : project_exists(p)
    /\ Len(sql_unassigned) >= ret.num_barcodes

(* C28: after add_barcodes_to_kit succeeds, none of the barcodes it attached
   is returned by get_unassigned_barcodes, also for a kit that had no
   barcodes or no projects; and no barcode is attached to two kits. *)
C28_AttachedNotUnassigned ==
    /\ (ret.op = "add_barcodes_to_kit" /\ ret.result.exc = NULL) =>
          Range(ret.result.barcodes)
              \cap Range(get_unassigned_barcodes(NoLimit).barcodes) = {}
    /\ \A r1, r2 \in kit_barcode_rows : r1[2] = r2[2] => r1[1] = r2[1]

=============================================================================
